---- MODULE Spec2Model ----
(***************************************************************************)
(* Model of the collaborative drawing server: DrawingState                 *)
(* (server/drawing-state.ts), RoomManager (server/rooms.ts) and the        *)
(* socket.io connection handlers (server/server.ts).                       *)
(*                                                                         *)
(* Every socket handler is one action.  uuidv4() is a fresh-id counter,    *)
(* Date.now() a non-decreasing clock.  A socket id names one connection:   *)
(* it connects once and never comes back after its disconnect.             *)
(*                                                                         *)
(* Spec and SpecWide follow the server's state; SpecEmit also records what *)
(* each handler emits and to which sockets.  SpecClient and SpecLive add   *)
(* the browser clients (client/canvas.ts, client/websocket.ts), with and   *)
(* without messages in flight; SpecRooms and SpecRegistry call             *)
(* DrawingState and RoomManager alone; SpecFault sends events without a    *)
(* payload.                                                                *)
(***************************************************************************)
EXTENDS Integers, Sequences, FiniteSets, TLC

\* ---- bounds ----
MaxOps == 2          \* ids uuidv4() hands out under Spec
MaxOpsWide == 3      \* ids uuidv4() hands out under SpecWide
MaxPoints == 2       \* points of one stroke
MaxClock == 0        \* latest value Date.now() returns under Spec
MaxClockWide == 1    \* latest value Date.now() returns under SpecWide
MaxOpsEmit == 1      \* ids uuidv4() hands out under SpecEmit
MaxOpsClient == 1    \* ids uuidv4() hands out under SpecClient
MaxOpsRooms == 2     \* ids uuidv4() hands out under SpecRooms
MaxOpsLive == 2      \* ids uuidv4() hands out under SpecLive
MaxClockLive == 1    \* latest value Date.now() returns under SpecLive
MaxSeq == 5          \* handlers that emit under SpecClient

\* ---- inputs ----
Users == {"s1", "s2"}
UserIndex == [u \in Users |-> IF u = "s1" THEN 1 ELSE 2]
\* the k-th point of a gesture of user u: the server never looks at coordinates,
\* so a point only has to tell who submitted it and at which position
PointOf(u, k) == [x |-> k, y |-> UserIndex[u]]
Styles == {[tool |-> "eraser", color |-> "#0000FF", strokeWidth |-> 8]}
\* generateUserColor: the server stores the color and never branches on it
UserColors == {"#FF0000"}
DefaultRoom == "default"
RoomIds == {"r1", "r2"}     \* the rooms DrawingState is called with under SpecRooms
\* the rooms and users RoomManager is called with under SpecRegistry
RegistryRooms == {"r1", "r2", "r3"}
RegistryUsers == {"s1", "s2", "s3"}

null == [null |-> TRUE]

VARIABLES
    states,      \* DrawingState.states: roomId -> RoomState
    rooms,       \* RoomManager.rooms: roomId -> (userId -> User)
    conn,        \* socket lifecycle: "new" | "connected" | "disconnected"
    nextId,      \* next value uuidv4() returns
    clock,       \* Date.now()
    stroke,      \* history: per user, the stroke begun by its last drawStart (id, the
                 \* points submitted since, the strokes it overlapped); null after the
                 \* user's drawEnd or disconnect and after a clear
    ended,       \* history: strokes whose drawEnd was processed since the last undo/clear
    orphaned,    \* history: ids of strokes whose author disconnected mid-stroke
    out,         \* under SpecEmit: the handler that ran last, its socket and its emits;
                 \* under SpecRegistry: the RoomManager call that ran last
    net,         \* under SpecClient: per socket, the server's messages still in flight
    client,      \* under SpecClient and SpecLive: per socket, the browser's CanvasManager and
                 \* WebSocketManager fields
    seq,         \* history: how many handlers have emitted so far
    got,         \* history: per socket, the seq of the message it handled last
    joined,      \* history: per socket, what the server held when it connected:
                 \* at, the next operation id (0: not connected yet), and during,
                 \* the id of the stroke in progress (0: none)
    crashed      \* under SpecFault: an exception escaped a handler and ended the process

vars == <<states, rooms, conn, nextId, clock, stroke, ended, orphaned, out,
          net, client, seq, got, joined, crashed>>
\* what only the client and fault specifications write
clientSide == <<net, client, seq, got, joined>>

\* ---- sequence helpers ----
Last(s) == s[Len(s)]
Front(s) == SubSeq(s, 1, Len(s) - 1)
Ids(s) == {s[i].id : i \in 1..Len(s)}

\* ---- DrawingState (server/drawing-state.ts) ----
EmptyRoomState ==
    [operations |-> <<>>, undoStack |-> <<>>, redoStack |-> <<>>,
     currentOperation |-> null]

getRoomState(st, roomId) ==
    IF roomId \in DOMAIN st THEN st ELSE st @@ (roomId :> EmptyRoomState)

startDraw_clearsUndone(st, roomId, userId, data, id, now) ==
    LET s0 == getRoomState(st, roomId)
        operation == [id |-> id, userId |-> userId, tool |-> data.tool,
                      color |-> data.color, strokeWidth |-> data.strokeWidth,
                      points |-> <<[x |-> data.x, y |-> data.y]>>,
                      timestamp |-> now]
    IN  [states |-> [s0 EXCEPT ![roomId].undoStack = <<>>,
                               ![roomId].currentOperation = operation],
         result |-> operation]

startDraw(st, roomId, userId, data, id, now) ==
    LET s0 == getRoomState(st, roomId)
        operation == [id |-> id, userId |-> userId, tool |-> data.tool,
                      color |-> data.color, strokeWidth |-> data.strokeWidth,
                      points |-> <<[x |-> data.x, y |-> data.y]>>,
                      timestamp |-> now]
    IN  [states |-> [s0 EXCEPT ![roomId].redoStack = <<>>,
                               ![roomId].currentOperation = operation],
         result |-> operation]

addPoint_lastCommitted(st, roomId, userId, x, y, id, now) ==
    LET s0 == getRoomState(st, roomId)
        cur == s0[roomId].currentOperation
        ops == s0[roomId].operations
    IN  IF cur # null /\ cur.userId = userId
        THEN LET upd == [cur EXCEPT !.points = Append(@, [x |-> x, y |-> y])]
             IN  [states |-> [s0 EXCEPT ![roomId].currentOperation = upd,
                                        ![roomId].operations =
                                            IF ops = <<>> THEN ops
                                            ELSE [ops EXCEPT ![Len(ops)].points =
                                                      Append(@, [x |-> x, y |-> y])]],
                  result |-> upd]
        ELSE LET operation == [id |-> id, userId |-> userId, tool |-> "brush",
                               color |-> "#000000", strokeWidth |-> 5,
                               points |-> <<[x |-> x, y |-> y]>>,
                               timestamp |-> now]
             IN  [states |-> [s0 EXCEPT ![roomId].currentOperation = operation],
                  result |-> operation]

addPoint(st, roomId, userId, x, y, id, now) ==
    LET s0 == getRoomState(st, roomId)
        cur == s0[roomId].currentOperation
    IN  IF cur # null /\ cur.userId = userId
        THEN LET upd == [cur EXCEPT !.points = Append(@, [x |-> x, y |-> y])]
             IN  [states |-> [s0 EXCEPT ![roomId].currentOperation = upd],
                  result |-> upd]
        ELSE LET operation == [id |-> id, userId |-> userId, tool |-> "brush",
                               color |-> "#000000", strokeWidth |-> 5,
                               points |-> <<[x |-> x, y |-> y]>>,
                               timestamp |-> now]
             IN  [states |-> [s0 EXCEPT ![roomId].currentOperation = operation],
                  result |-> operation]

endDraw_anyOwner(st, roomId, userId) ==
    LET s0 == getRoomState(st, roomId)
        cur == s0[roomId].currentOperation
    IN  IF cur # null
        THEN [states |-> [s0 EXCEPT ![roomId].operations = Append(@, cur),
                                    ![roomId].currentOperation = null],
              result |-> cur]
        ELSE [states |-> s0, result |-> null]

endDraw_keepsCurrent(st, roomId, userId) ==
    LET s0 == getRoomState(st, roomId)
        cur == s0[roomId].currentOperation
    IN  IF cur # null /\ cur.userId = userId
        THEN [states |-> [s0 EXCEPT ![roomId].operations = Append(@, cur)],
              result |-> cur]
        ELSE [states |-> s0, result |-> null]

endDraw(st, roomId, userId) ==
    LET s0 == getRoomState(st, roomId)
        cur == s0[roomId].currentOperation
    IN  IF cur # null /\ cur.userId = userId
        THEN [states |-> [s0 EXCEPT ![roomId].operations = Append(@, cur),
                                    ![roomId].currentOperation = null],
              result |-> cur]
        ELSE [states |-> s0, result |-> null]

undo_first(st, roomId) ==
    LET s0 == getRoomState(st, roomId)
        ops == s0[roomId].operations
    IN  IF Len(ops) = 0
        THEN [states |-> s0, result |-> null]
        ELSE [states |-> [s0 EXCEPT ![roomId].operations = Tail(ops),
                                    ![roomId].undoStack = Append(@, Head(ops))],
              result |-> Head(ops)]

undo_forgets(st, roomId) ==
    LET s0 == getRoomState(st, roomId)
        ops == s0[roomId].operations
    IN  IF Len(ops) = 0
        THEN [states |-> s0, result |-> null]
        ELSE [states |-> [s0 EXCEPT ![roomId].operations = Front(ops)],
              result |-> Last(ops)]

undo(st, roomId) ==
    LET s0 == getRoomState(st, roomId)
        ops == s0[roomId].operations
    IN  IF Len(ops) = 0
        THEN [states |-> s0, result |-> null]
        ELSE [states |-> [s0 EXCEPT ![roomId].operations = Front(ops),
                                    ![roomId].undoStack = Append(@, Last(ops))],
              result |-> Last(ops)]

redo_oldest(st, roomId) ==
    LET s0 == getRoomState(st, roomId)
        und == s0[roomId].undoStack
    IN  IF Len(und) = 0
        THEN [states |-> s0, result |-> null]
        ELSE [states |-> [s0 EXCEPT ![roomId].undoStack = Tail(und),
                                    ![roomId].operations = Append(@, Head(und))],
              result |-> Head(und)]

redo_prepends(st, roomId) ==
    LET s0 == getRoomState(st, roomId)
        und == s0[roomId].undoStack
    IN  IF Len(und) = 0
        THEN [states |-> s0, result |-> null]
        ELSE [states |-> [s0 EXCEPT ![roomId].undoStack = Front(und),
                                    ![roomId].operations = <<Last(und)>> \o @],
              result |-> Last(und)]

redo(st, roomId) ==
    LET s0 == getRoomState(st, roomId)
        und == s0[roomId].undoStack
    IN  IF Len(und) = 0
        THEN [states |-> s0, result |-> null]
        ELSE [states |-> [s0 EXCEPT ![roomId].undoStack = Front(und),
                                    ![roomId].operations = Append(@, Last(und))],
              result |-> Last(und)]

clear_keepsUndone(st, roomId) ==
    LET s0 == getRoomState(st, roomId)
    IN  [states |-> [s0 EXCEPT ![roomId].operations = <<>>,
                               ![roomId].redoStack = <<>>,
                               ![roomId].currentOperation = null],
         result |-> null]

clear_everyRoom(st, roomId) ==
    LET s0 == getRoomState(st, roomId)
    IN  [states |-> [r \in DOMAIN s0 |-> EmptyRoomState], result |-> null]

clear(st, roomId) ==
    LET s0 == getRoomState(st, roomId)
    IN  [states |-> [s0 EXCEPT ![roomId] = EmptyRoomState], result |-> null]

getState_withCurrent(st, roomId) ==
    LET s0 == getRoomState(st, roomId)
        cur == s0[roomId].currentOperation
    IN  [states |-> s0,
         result |-> s0[roomId].operations \o (IF cur = null THEN <<>> ELSE <<cur>>)]

getState(st, roomId) ==
    LET s0 == getRoomState(st, roomId)
    IN  [states |-> s0, result |-> s0[roomId].operations]

\* ---- RoomManager (server/rooms.ts) ----
joinRoom(rm, roomId, userId, userName, userColor) ==
    LET r0 == IF roomId \in DOMAIN rm THEN rm ELSE rm @@ (roomId :> <<>>)
        user == [id |-> userId, name |-> userName, color |-> userColor]
    IN  [r0 EXCEPT ![roomId] =
            IF userId \in DOMAIN @ THEN [@ EXCEPT ![userId] = user]
                                   ELSE @ @@ (userId :> user)]

leaveRoom_keepsUser(rm, roomId, userId) ==
    IF roomId \notin DOMAIN rm
    THEN rm
    ELSE IF DOMAIN rm[roomId] = {}
         THEN [r \in DOMAIN rm \ {roomId} |-> rm[r]]
         ELSE rm

leaveRoom_keepsEmpty(rm, roomId, userId) ==
    IF roomId \notin DOMAIN rm
    THEN rm
    ELSE [rm EXCEPT ![roomId] = [u \in DOMAIN rm[roomId] \ {userId} |-> rm[roomId][u]]]

leaveRoom(rm, roomId, userId) ==
    IF roomId \notin DOMAIN rm
    THEN rm
    ELSE LET room == [u \in DOMAIN rm[roomId] \ {userId} |-> rm[roomId][u]]
         IN  IF DOMAIN room = {}
             THEN [r \in DOMAIN rm \ {roomId} |-> rm[r]]
             ELSE [rm EXCEPT ![roomId] = room]

getRoomUsers(rm, roomId) ==
    IF roomId \notin DOMAIN rm THEN {} ELSE {rm[roomId][u] : u \in DOMAIN rm[roomId]}

\* ---- socket.io delivery (server/server.ts) ----
UserName(u) == <<"User", u>>

\* the room state of the one room the server uses
Room == getRoomState(states, DefaultRoom)[DefaultRoom]
Committed == Room.operations
Undone == Room.undoStack
Current == Room.currentOperation
Owns(u) == Current # null /\ Current.userId = u

NoStroke == [u \in Users |-> null]

\* the other users' strokes that are in progress right now
Peers(u) == {stroke[v].id : v \in {w \in Users \ {u} : stroke[w] # null}}

\* the fields of a freshly loaded page (client/canvas.ts, client/websocket.ts)
NewClient ==
    [userId |-> "", users |-> {}, isDrawing |-> FALSE,
     currentOperation |-> null, currentOperationId |-> 0,
     operations |-> <<>>, keys |-> <<>>, undoStack |-> <<>>]

Init ==
    /\ states = <<>>
    /\ rooms = <<>>
    /\ conn = [u \in Users |-> "new"]
    /\ nextId = 1
    /\ clock = 0
    /\ stroke = NoStroke
    /\ ended = {}
    /\ orphaned = {}
    /\ out = [event |-> "listen", user |-> "", emits |-> <<>>]
    /\ net = [u \in Users |-> <<>>]
    /\ client = [u \in Users |-> NewClient]
    /\ seq = 0
    /\ got = [u \in Users |-> 0]
    /\ joined = [u \in Users |-> [at |-> 0, during |-> 0]]
    /\ crashed = FALSE

\* io.on('connection'): joinRoom, socket.join, getState for the init message
Connect(u) ==
    /\ conn[u] = "new"
    /\ \E userColor \in UserColors :
        rooms' = joinRoom(rooms, DefaultRoom, u, UserName(u), userColor)
    /\ states' = getState(states, DefaultRoom).states
    /\ conn' = [conn EXCEPT ![u] = "connected"]
    /\ UNCHANGED <<nextId, clock, stroke, ended, orphaned>>

\* socket.on('drawStart')
DrawStart(u, maxOps, maxClock) ==
    /\ conn[u] = "connected"
    /\ nextId <= maxOps
    /\ \E style \in Styles, now \in clock..maxClock :
        LET p == PointOf(u, 1)
            data == [x |-> p.x, y |-> p.y, tool |-> style.tool,
                     color |-> style.color, strokeWidth |-> style.strokeWidth]
            r == startDraw(states, DefaultRoom, u, data, nextId, now)
        IN  /\ states' = r.states
            /\ clock' = now
            /\ stroke' = [v \in Users |->
                            IF v = u THEN [id |-> r.result.id, points |-> <<p>>,
                                           peers |-> Peers(u)]
                            ELSE IF stroke[v] = null THEN null
                            ELSE [stroke[v] EXCEPT !.peers = @ \cup {r.result.id}]]
    /\ nextId' = nextId + 1
    /\ UNCHANGED <<rooms, conn, ended, orphaned>>

\* socket.on('drawMove')
DrawMove(u, maxOps, maxClock) ==
    /\ conn[u] = "connected"
    /\ stroke[u] # null => Len(stroke[u].points) < MaxPoints
    /\ LET cur == Current
           own == Owns(u)
           p == PointOf(u, IF stroke[u] = null THEN 0 ELSE Len(stroke[u].points) + 1)
       IN  /\ own => Len(cur.points) < MaxPoints
           /\ ~own => nextId <= maxOps
           /\ \E now \in IF own THEN {clock} ELSE clock..maxClock :
               /\ states' = addPoint(states, DefaultRoom, u, p.x, p.y, nextId, now).states
               /\ clock' = now
           /\ nextId' = IF own THEN nextId ELSE nextId + 1
           /\ stroke' = IF stroke[u] = null THEN stroke
                        ELSE [stroke EXCEPT ![u].points = Append(@, p)]
    /\ UNCHANGED <<rooms, conn, ended, orphaned>>

\* socket.on('drawEnd')
DrawEnd(u) ==
    /\ conn[u] = "connected"
    /\ states' = endDraw(states, DefaultRoom, u).states
    /\ ended' = IF stroke[u] = null THEN ended
                ELSE ended \cup {[id |-> stroke[u].id, peers |-> stroke[u].peers]}
    /\ stroke' = [stroke EXCEPT ![u] = null]
    /\ UNCHANGED <<rooms, conn, nextId, clock, orphaned>>

\* socket.on('undo')
Undo(u) ==
    /\ conn[u] = "connected"
    /\ states' = undo(states, DefaultRoom).states
    /\ ended' = {}
    /\ UNCHANGED <<rooms, conn, nextId, clock, stroke, orphaned>>

\* socket.on('redo')
Redo(u) ==
    /\ conn[u] = "connected"
    /\ states' = redo(states, DefaultRoom).states
    /\ UNCHANGED <<rooms, conn, nextId, clock, stroke, ended, orphaned>>

\* socket.on('clear')
Clear(u) ==
    /\ conn[u] = "connected"
    /\ states' = clear(states, DefaultRoom).states
    /\ stroke' = NoStroke
    /\ ended' = {}
    /\ UNCHANGED <<rooms, conn, nextId, clock, orphaned>>

\* socket.on('disconnect')
Disconnect(u) ==
    /\ conn[u] = "connected"
    /\ rooms' = leaveRoom(rooms, DefaultRoom, u)
    /\ conn' = [conn EXCEPT ![u] = "disconnected"]
    /\ orphaned' = orphaned
                   \cup (IF stroke[u] = null THEN {} ELSE {stroke[u].id})
                   \cup (IF Owns(u) THEN {Current.id} ELSE {})
    /\ stroke' = [stroke EXCEPT ![u] = null]
    /\ UNCHANGED <<states, nextId, clock, ended>>

\* socket.on('cursorMove'): relays the position, keeps nothing
CursorMove(u) ==
    /\ conn[u] = "connected"
    /\ UNCHANGED <<states, rooms, conn, nextId, clock, stroke, ended, orphaned>>

\* ---- what the handlers emit (server/server.ts) ----
InRoom == {u \in Users : conn[u] = "connected"}     \* the sockets joined to the room
Emit(event, to, payload) == [event |-> event, to |-> to, payload |-> payload]
Handled(event, u, emits) == [event |-> event, user |-> u, emits |-> emits]

\* socket.emit('init') and socket.to(roomId).emit('userJoined')
ConnectEmits(u) ==
    LET user == rooms'[DefaultRoom][u]
    IN  <<Emit("init", {u},
               [userId |-> u, userName |-> user.name, userColor |-> user.color,
                roomId |-> DefaultRoom,
                canvasState |-> getState(states, DefaultRoom).result,
                users |-> getRoomUsers(rooms', DefaultRoom)]),
          Emit("userJoined", InRoom \ {u},
               [userId |-> u, userName |-> user.name, userColor |-> user.color])>>

\* socket.emit('drawStart') and socket.to(roomId).emit('drawStart');
\* operation is what startDraw returned, which holds the payload's data
DrawStartEmits(u) ==
    LET operation == Current'
        payload == [x |-> operation.points[1].x, y |-> operation.points[1].y,
                    tool |-> operation.tool, color |-> operation.color,
                    strokeWidth |-> operation.strokeWidth,
                    userId |-> u, operationId |-> operation.id]
    IN  <<Emit("drawStart", {u}, payload), Emit("drawStart", InRoom \ {u}, payload)>>

DrawMoveEmits_toAll(u) ==
    LET operation == Current'
    IN  <<Emit("drawMove", InRoom,
               [x |-> Last(operation.points).x, y |-> Last(operation.points).y,
                userId |-> u, operationId |-> operation.id])>>

\* socket.to(roomId).emit('drawMove'); operation is what addPoint returned
DrawMoveEmits(u) ==
    LET operation == Current'
    IN  <<Emit("drawMove", InRoom \ {u},
               [x |-> Last(operation.points).x, y |-> Last(operation.points).y,
                userId |-> u, operationId |-> operation.id])>>

DrawEndEmits_unguarded(u) ==
    <<Emit("drawEnd", {u}, [userId |-> u, operationId |-> 0]),
      Emit("drawEnd", InRoom \ {u}, [userId |-> u, operationId |-> 0])>>

\* if (operation): socket.emit('drawEnd') and socket.to(roomId).emit('drawEnd')
DrawEndEmits(u) ==
    LET operation == endDraw(states, DefaultRoom, u).result
    IN  IF operation # null
        THEN <<Emit("drawEnd", {u}, [userId |-> u, operationId |-> operation.id]),
               Emit("drawEnd", InRoom \ {u}, [userId |-> u, operationId |-> operation.id])>>
        ELSE <<>>

\* socket.to(roomId).emit('cursorMove')
CursorMoveEmits(u) ==
    LET data == PointOf(u, 1)
    IN  <<Emit("cursorMove", InRoom \ {u},
               [x |-> data.x, y |-> data.y, userId |-> u,
                userColor |-> rooms[DefaultRoom][u].color])>>

UndoEmits_unguarded(u) ==
    <<Emit("undo", InRoom, [operationId |-> 0, userId |-> u])>>

\* if (operation): io.to(roomId).emit('undo')
UndoEmits(u) ==
    LET operation == undo(states, DefaultRoom).result
    IN  IF operation # null
        THEN <<Emit("undo", InRoom,
                    [operationId |-> operation.id, userId |-> operation.userId])>>
        ELSE <<>>

\* if (operation): io.to(roomId).emit('redo')
RedoEmits(u) ==
    LET operation == redo(states, DefaultRoom).result
    IN  IF operation # null
        THEN <<Emit("redo", InRoom,
                    [operationId |-> operation.id, userId |-> operation.userId])>>
        ELSE <<>>

ClearEmits_toOthers(u) == <<Emit("clear", InRoom \ {u}, [userId |-> u])>>

\* io.to(roomId).emit('clear')
ClearEmits(u) == <<Emit("clear", InRoom, [userId |-> u])>>

\* socket.to(roomId).emit('userLeft'): the socket has left its rooms by now
DisconnectEmits(u) == <<Emit("userLeft", InRoom \ {u}, [userId |-> u])>>

\* ---- the browser client (client/canvas.ts, client/websocket.ts) ----
\* The pixels (drawSegment, clearCanvas, the cursor layer) are left to the
\* canvas; the model keeps the fields the handlers branch on and the order in
\* which redrawAll draws.  '' is 0 for an operation id and "" for a user id.
\* The Map operations is the function operations with its keys in insertion
\* order in keys; now is what Date.now() returns in the browser.
MapSet(m, k, v) == [i \in DOMAIN m \cup {k} |-> IF i = k THEN v ELSE m[i]]
MapDelete(m, k) == [i \in DOMAIN m \ {k} |-> m[i]]
\* Map.set keeps the place of a key the Map has and puts a new key last
KeysSet(keys, k) ==
    IF \E i \in 1..Len(keys) : keys[i] = k THEN keys ELSE Append(keys, k)
KeysDelete(keys, k) == SelectSeq(keys, LAMBDA i : i # k)

\* the entries of the client that are the object currentOperation refers to:
\* startDrawing creates it with userId '' and handleLocalDrawStart files it
\* under the id it then carries
IsCurrentObject(c, op) ==
    /\ c.currentOperation # null
    /\ c.currentOperation.id # 0
    /\ op.userId = ""
    /\ op.id = c.currentOperation.id

\* a write to the object currentOperation refers to shows in every reference
WriteCurrent(c, new) ==
    [c EXCEPT !.currentOperation = new,
              !.operations = [i \in DOMAIN @ |->
                                 IF IsCurrentObject(c, @[i]) THEN new ELSE @[i]],
              !.undoStack = [i \in DOMAIN @ |->
                                IF IsCurrentObject(c, @[i]) THEN new ELSE @[i]]]

startDrawing(c, x, y, tool, color, strokeWidth, now) ==
    [c EXCEPT !.isDrawing = TRUE,
              !.currentOperation =
                  [id |-> 0, userId |-> "", tool |-> tool,
                   color |-> IF tool = "eraser" THEN "#FFFFFF" ELSE color,
                   strokeWidth |-> strokeWidth, points |-> <<[x |-> x, y |-> y]>>,
                   timestamp |-> now]]

continueDrawing(c, x, y) ==
    IF c.currentOperation = null
    THEN c
    ELSE WriteCurrent(c, [c.currentOperation EXCEPT
                              !.points = Append(@, [x |-> x, y |-> y])])

stopDrawing(c) ==
    IF ~c.isDrawing \/ c.currentOperation = null
    THEN c
    ELSE [c EXCEPT !.isDrawing = FALSE, !.currentOperation = null]

handleRemoteDrawStart(c, userId, operationId, x, y, tool, color, strokeWidth, now) ==
    [c EXCEPT !.operations =
        MapSet(@, operationId,
               [id |-> operationId, userId |-> userId, tool |-> tool, color |-> color,
                strokeWidth |-> strokeWidth, points |-> <<[x |-> x, y |-> y]>>,
                timestamp |-> now]),
              !.keys = KeysSet(@, operationId)]

handleRemoteDrawMove(c, userId, operationId, x, y) ==
    IF operationId \notin DOMAIN c.operations
    THEN c
    ELSE LET operation == c.operations[operationId]
             new == [operation EXCEPT !.points = Append(@, [x |-> x, y |-> y])]
         IN  IF IsCurrentObject(c, operation)
             THEN WriteCurrent(c, new)
             ELSE [c EXCEPT !.operations[operationId] = new]

handleRemoteDrawEnd(c, userId, operationId) == c

handleLocalDrawStart(c, operationId) ==
    LET c1 == [c EXCEPT !.currentOperationId = operationId]
    IN  IF c.currentOperation = null
        THEN c1
        ELSE LET new == [c.currentOperation EXCEPT !.id = operationId]
                 c2 == WriteCurrent(c1, new)
             IN  [c2 EXCEPT !.operations = MapSet(@, operationId, new),
                            !.keys = KeysSet(@, operationId)]

handleLocalDrawEnd(c, operationId) ==
    LET c1 == IF c.currentOperation # null /\ c.currentOperationId = 0
              THEN LET new == [c.currentOperation EXCEPT !.id = operationId]
                       c2 == WriteCurrent(c, new)
                   IN  [c2 EXCEPT !.operations = MapSet(@, operationId, new),
                                  !.keys = KeysSet(@, operationId),
                                  !.currentOperation = null]
              ELSE c
    IN  [c1 EXCEPT !.currentOperationId = 0]

handleUndo(c, operationId) ==
    IF operationId \in DOMAIN c.operations
    THEN [c EXCEPT !.undoStack = Append(@, c.operations[operationId]),
                   !.operations = MapDelete(@, operationId),
                   !.keys = KeysDelete(@, operationId)]
    ELSE c

handleRedo(c, operationId) ==
    LET found == {i \in 1..Len(c.undoStack) : c.undoStack[i].id = operationId}
    IN  IF found = {}
        THEN c
        ELSE LET index == CHOOSE i \in found : \A j \in found : i <= j
                 operation == c.undoStack[index]
             IN  [c EXCEPT !.undoStack = SubSeq(@, 1, index - 1)
                                             \o SubSeq(@, index + 1, Len(@)),
                           !.operations = MapSet(@, operationId, operation),
                           !.keys = KeysSet(@, operationId)]

handleClear(c) == [c EXCEPT !.operations = <<>>, !.keys = <<>>, !.undoStack = <<>>]

\* Array.prototype.sort with (a, b) => a.timestamp - b.timestamp is stable:
\* the operations of ops come out by timestamp and, within one timestamp, in
\* the order ops has them
RECURSIVE sortByTimestamp(_)
sortByTimestamp(ops) ==
    IF ops = <<>>
    THEN <<>>
    ELSE LET first == CHOOSE i \in 1..Len(ops) :
                          \A j \in 1..Len(ops) :
                              \/ ops[i].timestamp < ops[j].timestamp
                              \/ ops[i].timestamp = ops[j].timestamp /\ i <= j
         IN  <<ops[first]>> \o sortByTimestamp(SubSeq(ops, 1, first - 1)
                                                   \o SubSeq(ops, first + 1, Len(ops)))

\* CanvasManager.redrawAll: the operations it draws, in the order it draws
\* them; an operation with fewer than two points is skipped
redrawAll(c) ==
    SelectSeq(sortByTimestamp([i \in 1..Len(c.keys) |-> c.operations[c.keys[i]]]),
              LAMBDA operation : Len(operation.points) >= 2)

\* handleRemoteDrawMove for the points of op from the i-th on
RECURSIVE replayPoints(_, _, _)
replayPoints(c, op, i) ==
    IF i > Len(op.points)
    THEN c
    ELSE replayPoints(handleRemoteDrawMove(c, op.userId, op.id,
                                           op.points[i].x, op.points[i].y),
                      op, i + 1)

\* WebSocketManager.loadCanvasState: replays the operations that have at least
\* two points
RECURSIVE loadCanvasState(_, _, _)
loadCanvasState(c, operations, now) ==
    IF operations = <<>>
    THEN c
    ELSE LET op == Head(operations)
             c1 == IF Len(op.points) >= 2
                   THEN handleRemoteDrawEnd(
                            replayPoints(
                                handleRemoteDrawStart(c, op.userId, op.id,
                                    op.points[1].x, op.points[1].y,
                                    op.tool, op.color, op.strokeWidth, now),
                                op, 2),
                            op.userId, op.id)
                   ELSE c
         IN  loadCanvasState(c1, Tail(operations), now)

\* the socket.on handlers of WebSocketManager.setupSocket
OnMessage(c, m, now) ==
    LET data == m.payload
    IN  CASE m.event = "init" ->
                 loadCanvasState(
                     [c EXCEPT !.userId = data.userId,
                               !.users = @ \cup {user.id : user \in data.users}],
                     data.canvasState, now)
          [] m.event = "userJoined" -> [c EXCEPT !.users = @ \cup {data.userId}]
          [] m.event = "userLeft" -> [c EXCEPT !.users = @ \ {data.userId}]
          [] m.event = "drawStart" ->
                 IF data.userId # c.userId
                 THEN handleRemoteDrawStart(c, data.userId, data.operationId, data.x,
                                            data.y, data.tool, data.color,
                                            data.strokeWidth, now)
                 ELSE handleLocalDrawStart(c, data.operationId)
          [] m.event = "drawMove" ->
                 IF data.userId # c.userId
                 THEN handleRemoteDrawMove(c, data.userId, data.operationId,
                                           data.x, data.y)
                 ELSE c
          [] m.event = "drawEnd" ->
                 IF data.userId # c.userId
                 THEN handleRemoteDrawEnd(c, data.userId, data.operationId)
                 ELSE handleLocalDrawEnd(c, data.operationId)
          [] m.event = "cursorMove" -> c
          [] m.event = "undo" -> handleUndo(c, data.operationId)
          [] m.event = "redo" -> handleRedo(c, data.operationId)
          [] m.event = "clear" -> handleClear(c)

\* ---- delivery: each socket is an ordered channel ----
\* the emits addressed to socket v, in the order the handler made them
EmitsTo(emits, v) == SelectSeq(emits, LAMBDA e : v \in e.to)

Stamp(emits, n) ==
    [i \in 1..Len(emits) |->
        [event |-> emits[i].event, payload |-> emits[i].payload, seq |-> n]]

Deliver_front(emits) ==
    [v \in Users |-> Stamp(EmitsTo(emits, v), seq + 1) \o net[v]]

\* socket.emit / socket.to(roomId).emit / io.to(roomId).emit run inside the
\* handler: the messages join each socket's channel behind those of every
\* handler that ran before
Deliver(emits) ==
    [v \in Users |-> net[v] \o Stamp(EmitsTo(emits, v), seq + 1)]

\* a handler ran and emitted
Sent(emits) ==
    /\ seq < MaxSeq
    /\ net' = Deliver(emits)
    /\ seq' = IF emits = <<>> THEN seq ELSE seq + 1

Handlers(maxOps, maxClock) ==
    \E u \in Users :
        \/ Connect(u) /\ UNCHANGED <<out, clientSide, crashed>>
        \/ DrawStart(u, maxOps, maxClock) /\ UNCHANGED <<out, clientSide, crashed>>
        \/ DrawMove(u, maxOps, maxClock) /\ UNCHANGED <<out, clientSide, crashed>>
        \/ DrawEnd(u) /\ UNCHANGED <<out, clientSide, crashed>>
        \/ CursorMove(u) /\ UNCHANGED <<out, clientSide, crashed>>
        \/ Undo(u) /\ UNCHANGED <<out, clientSide, crashed>>
        \/ Redo(u) /\ UNCHANGED <<out, clientSide, crashed>>
        \/ Clear(u) /\ UNCHANGED <<out, clientSide, crashed>>
        \/ Disconnect(u) /\ UNCHANGED <<out, clientSide, crashed>>

Next == Handlers(MaxOps, MaxClock)
NextWide == Handlers(MaxOpsWide, MaxClockWide)

NextEmit ==
    \E u \in Users :
        \/ Connect(u) /\ out' = Handled("connection", u, ConnectEmits(u))
              /\ UNCHANGED <<clientSide, crashed>>
        \/ DrawStart(u, MaxOpsEmit, MaxClock)
              /\ out' = Handled("drawStart", u, DrawStartEmits(u))
              /\ UNCHANGED <<clientSide, crashed>>
        \/ DrawMove(u, MaxOpsEmit, MaxClock)
              /\ out' = Handled("drawMove", u, DrawMoveEmits(u))
              /\ UNCHANGED <<clientSide, crashed>>
        \/ DrawEnd(u) /\ out' = Handled("drawEnd", u, DrawEndEmits(u))
              /\ UNCHANGED <<clientSide, crashed>>
        \/ CursorMove(u) /\ out' = Handled("cursorMove", u, CursorMoveEmits(u))
              /\ UNCHANGED <<clientSide, crashed>>
        \/ Undo(u) /\ out' = Handled("undo", u, UndoEmits(u))
              /\ UNCHANGED <<clientSide, crashed>>
        \/ Redo(u) /\ out' = Handled("redo", u, RedoEmits(u))
              /\ UNCHANGED <<clientSide, crashed>>
        \/ Clear(u) /\ out' = Handled("clear", u, ClearEmits(u))
              /\ UNCHANGED <<clientSide, crashed>>
        \/ Disconnect(u) /\ out' = Handled("disconnect", u, DisconnectEmits(u))
              /\ UNCHANGED <<clientSide, crashed>>

\* ---- clients and server together ----
\* A gesture of the browser and the server's handling of the event it sends are
\* one step; what the server emits travels on the sockets' channels and each
\* client handles its messages one at a time (Receive).
serverSide == <<states, rooms, conn, nextId, clock, stroke, ended, orphaned>>

\* io(): the page opens its socket
ClientConnect(u) ==
    /\ Connect(u)
    /\ Sent(ConnectEmits(u))
    /\ joined' = [joined EXCEPT ![u] =
                      [at |-> nextId, during |-> IF Current = null THEN 0 ELSE Current.id]]
    /\ UNCHANGED <<client, got, out, crashed>>

\* mousedown/touchstart: startDrawing, onDrawStart
ClientDrawStart(u) ==
    /\ DrawStart(u, MaxOpsClient, MaxClock)
    /\ Sent(DrawStartEmits(u))
    /\ LET data == Current'
       IN  client' = [client EXCEPT ![u] =
               startDrawing(@, data.points[1].x, data.points[1].y,
                            data.tool, data.color, data.strokeWidth, clock')]
    /\ UNCHANGED <<got, joined, out, crashed>>

\* mousemove/touchmove while drawing: continueDrawing, onDrawMove
ClientDrawMove(u) ==
    /\ client[u].isDrawing
    /\ client[u].currentOperation # null
    /\ Len(client[u].currentOperation.points) < MaxPoints
    /\ DrawMove(u, MaxOpsClient, MaxClock)
    /\ Sent(DrawMoveEmits(u))
    /\ LET p == Last(Current'.points)
       IN  client' = [client EXCEPT ![u] = continueDrawing(@, p.x, p.y)]
    /\ UNCHANGED <<got, joined, out, crashed>>

\* mouseup/touchend while drawing: stopDrawing, onDrawEnd
ClientDrawEnd(u) ==
    /\ client[u].isDrawing
    /\ client[u].currentOperation # null
    /\ DrawEnd(u)
    /\ Sent(DrawEndEmits(u))
    /\ client' = [client EXCEPT ![u] = stopDrawing(@)]
    /\ UNCHANGED <<got, joined, out, crashed>>

\* mousemove: onCursorMove
ClientCursorMove(u) ==
    /\ CursorMove(u)
    /\ Sent(CursorMoveEmits(u))
    /\ UNCHANGED <<client, got, joined, out, crashed>>

\* emitUndo
ClientUndo(u) ==
    /\ Undo(u)
    /\ Sent(UndoEmits(u))
    /\ UNCHANGED <<client, got, joined, out, crashed>>

\* emitRedo
ClientRedo(u) ==
    /\ Redo(u)
    /\ Sent(RedoEmits(u))
    /\ UNCHANGED <<client, got, joined, out, crashed>>

\* emitClear
ClientClear(u) ==
    /\ Clear(u)
    /\ Sent(ClearEmits(u))
    /\ UNCHANGED <<client, got, joined, out, crashed>>

\* the page closes: what was in flight to it is dropped
ClientDisconnect(u) ==
    /\ Disconnect(u)
    /\ seq < MaxSeq
    /\ net' = [Deliver(DisconnectEmits(u)) EXCEPT ![u] = <<>>]
    /\ seq' = IF DisconnectEmits(u)[1].to = {} THEN seq ELSE seq + 1
    /\ UNCHANGED <<client, got, joined, out, crashed>>

\* the client handles the next message of its socket
Receive(u) ==
    /\ conn[u] = "connected"
    /\ net[u] # <<>>
    /\ client' = [client EXCEPT ![u] = OnMessage(@, Head(net[u]), clock)]
    /\ net' = [net EXCEPT ![u] = Tail(@)]
    /\ got' = [got EXCEPT ![u] = Head(net[u]).seq]
    /\ UNCHANGED <<serverSide, seq, joined, out, crashed>>

NextClient ==
    \E u \in Users :
        \/ ClientConnect(u)
        \/ ClientDrawStart(u)
        \/ ClientDrawMove(u)
        \/ ClientDrawEnd(u)
        \/ ClientCursorMove(u)
        \/ ClientUndo(u)
        \/ ClientRedo(u)
        \/ ClientClear(u)
        \/ ClientDisconnect(u)
        \/ Receive(u)

\* ---- clients and server without latency ----
\* Every message is handled by its client before the next event happens.
\* the client handles msgs, oldest first
RECURSIVE handleAll(_, _, _)
handleAll(c, msgs, now) ==
    IF msgs = <<>>
    THEN c
    ELSE handleAll(OnMessage(c, Head(msgs), now), Tail(msgs), now)

\* what the handler emitted is handled by every client it was sent to
Arrive(cl, emits, now) ==
    [v \in Users |-> handleAll(cl[v], EmitsTo(emits, v), now)]

LiveConnect(u) ==
    /\ Connect(u)
    /\ client' = Arrive(client, ConnectEmits(u), clock')
    /\ UNCHANGED <<net, seq, got, joined, out, crashed>>

LiveDrawStart(u) ==
    /\ DrawStart(u, MaxOpsLive, MaxClockLive)
    /\ LET data == Current'
           pressed == [client EXCEPT ![u] =
                          startDrawing(@, data.points[1].x, data.points[1].y,
                                       data.tool, data.color, data.strokeWidth, clock')]
       IN  client' = Arrive(pressed, DrawStartEmits(u), clock')
    /\ UNCHANGED <<net, seq, got, joined, out, crashed>>

LiveDrawMove(u) ==
    /\ client[u].isDrawing
    /\ client[u].currentOperation # null
    /\ Len(client[u].currentOperation.points) < MaxPoints
    /\ DrawMove(u, MaxOpsLive, MaxClockLive)
    /\ LET p == Last(Current'.points)
           moved == [client EXCEPT ![u] = continueDrawing(@, p.x, p.y)]
       IN  client' = Arrive(moved, DrawMoveEmits(u), clock')
    /\ UNCHANGED <<net, seq, got, joined, out, crashed>>

LiveDrawEnd(u) ==
    /\ client[u].isDrawing
    /\ client[u].currentOperation # null
    /\ DrawEnd(u)
    /\ client' = Arrive([client EXCEPT ![u] = stopDrawing(@)], DrawEndEmits(u), clock')
    /\ UNCHANGED <<net, seq, got, joined, out, crashed>>

LiveUndo(u) ==
    /\ Undo(u)
    /\ client' = Arrive(client, UndoEmits(u), clock')
    /\ UNCHANGED <<net, seq, got, joined, out, crashed>>

LiveRedo(u) ==
    /\ Redo(u)
    /\ client' = Arrive(client, RedoEmits(u), clock')
    /\ UNCHANGED <<net, seq, got, joined, out, crashed>>

LiveClear(u) ==
    /\ Clear(u)
    /\ client' = Arrive(client, ClearEmits(u), clock')
    /\ UNCHANGED <<net, seq, got, joined, out, crashed>>

LiveDisconnect(u) ==
    /\ Disconnect(u)
    /\ client' = Arrive(client, DisconnectEmits(u), clock')
    /\ UNCHANGED <<net, seq, got, joined, out, crashed>>

NextLive ==
    \E u \in Users :
        \/ LiveConnect(u)
        \/ LiveDrawStart(u)
        \/ LiveDrawMove(u)
        \/ LiveDrawEnd(u)
        \/ LiveUndo(u)
        \/ LiveRedo(u)
        \/ LiveClear(u)
        \/ LiveDisconnect(u)

\* ---- DrawingState called for several rooms ----
\* the calls of the DrawingState methods, for any room and user
CallStartDraw(r, u) ==
    /\ nextId <= MaxOpsRooms
    /\ \E style \in Styles :
        LET p == PointOf(u, 1)
            data == [x |-> p.x, y |-> p.y, tool |-> style.tool,
                     color |-> style.color, strokeWidth |-> style.strokeWidth]
        IN  states' = startDraw(states, r, u, data, nextId, clock).states
    /\ nextId' = nextId + 1
    /\ UNCHANGED <<rooms, conn, clock, stroke, ended, orphaned, out, clientSide, crashed>>

CallAddPoint(r, u) ==
    LET cur == getRoomState(states, r)[r].currentOperation
        own == cur # null /\ cur.userId = u
        p == PointOf(u, 2)
    IN  /\ own => Len(cur.points) < MaxPoints
        /\ ~own => nextId <= MaxOpsRooms
        /\ states' = addPoint(states, r, u, p.x, p.y, nextId, clock).states
        /\ nextId' = IF own THEN nextId ELSE nextId + 1
        /\ UNCHANGED <<rooms, conn, clock, stroke, ended, orphaned, out, clientSide, crashed>>

CallEndDraw(r, u) ==
    /\ states' = endDraw(states, r, u).states
    /\ UNCHANGED <<rooms, conn, nextId, clock, stroke, ended, orphaned, out, clientSide, crashed>>

CallUndo(r) ==
    /\ states' = undo(states, r).states
    /\ UNCHANGED <<rooms, conn, nextId, clock, stroke, ended, orphaned, out, clientSide, crashed>>

CallRedo(r) ==
    /\ states' = redo(states, r).states
    /\ UNCHANGED <<rooms, conn, nextId, clock, stroke, ended, orphaned, out, clientSide, crashed>>

CallClear(r) ==
    /\ states' = clear(states, r).states
    /\ UNCHANGED <<rooms, conn, nextId, clock, stroke, ended, orphaned, out, clientSide, crashed>>

CallGetState(r) ==
    /\ states' = getState(states, r).states
    /\ UNCHANGED <<rooms, conn, nextId, clock, stroke, ended, orphaned, out, clientSide, crashed>>

NextRooms ==
    \E r \in RoomIds :
        \/ \E u \in Users : CallStartDraw(r, u)
        \/ \E u \in Users : CallAddPoint(r, u)
        \/ \E u \in Users : CallEndDraw(r, u)
        \/ CallUndo(r)
        \/ CallRedo(r)
        \/ CallClear(r)
        \/ CallGetState(r)

\* ---- RoomManager called for several rooms ----
\* joinRoom and leaveRoom for any room and user, members or not; out keeps the
\* call that ran last
CallJoinRoom(r, u) ==
    /\ \E userColor \in UserColors : rooms' = joinRoom(rooms, r, u, UserName(u), userColor)
    /\ out' = [event |-> "joinRoom", user |-> u, room |-> r, emits |-> <<>>]
    /\ UNCHANGED <<states, conn, nextId, clock, stroke, ended, orphaned, clientSide, crashed>>

CallLeaveRoom(r, u) ==
    /\ rooms' = leaveRoom(rooms, r, u)
    /\ out' = [event |-> "leaveRoom", user |-> u, room |-> r, emits |-> <<>>]
    /\ UNCHANGED <<states, conn, nextId, clock, stroke, ended, orphaned, clientSide, crashed>>

NextRegistry ==
    \E r \in RegistryRooms, u \in RegistryUsers :
        \/ CallJoinRoom(r, u)
        \/ CallLeaveRoom(r, u)

\* ---- events without a payload ----
\* socket.on('drawStart') with data undefined: startDraw resets redoStack and
\* then reads data.tool, a TypeError; no handler catches it and the process
\* has no uncaughtException listener, so the exception ends the process
MalformedDrawStart(u) ==
    /\ conn[u] = "connected"
    /\ states' = [getRoomState(states, DefaultRoom) EXCEPT ![DefaultRoom].redoStack = <<>>]
    /\ crashed' = TRUE
    /\ UNCHANGED <<rooms, conn, nextId, clock, stroke, ended, orphaned, out, clientSide>>

\* socket.on('drawMove') with data undefined: reading data.x for the call of
\* addPoint is a TypeError
MalformedDrawMove(u) ==
    /\ conn[u] = "connected"
    /\ crashed' = TRUE
    /\ UNCHANGED <<serverSide, out, clientSide>>

\* the handlers run as long as the process does
NextFault ==
    \E u \in Users :
        \/ ~crashed /\ Connect(u) /\ UNCHANGED <<out, clientSide, crashed>>
        \/ ~crashed /\ DrawStart(u, MaxOpsEmit, MaxClock)
                    /\ UNCHANGED <<out, clientSide, crashed>>
        \/ ~crashed /\ DrawMove(u, MaxOpsEmit, MaxClock)
                    /\ UNCHANGED <<out, clientSide, crashed>>
        \/ ~crashed /\ DrawEnd(u) /\ UNCHANGED <<out, clientSide, crashed>>
        \/ ~crashed /\ CursorMove(u) /\ UNCHANGED <<out, clientSide, crashed>>
        \/ ~crashed /\ Undo(u) /\ UNCHANGED <<out, clientSide, crashed>>
        \/ ~crashed /\ Redo(u) /\ UNCHANGED <<out, clientSide, crashed>>
        \/ ~crashed /\ Clear(u) /\ UNCHANGED <<out, clientSide, crashed>>
        \/ ~crashed /\ Disconnect(u) /\ UNCHANGED <<out, clientSide, crashed>>
        \/ ~crashed /\ MalformedDrawStart(u)
        \/ ~crashed /\ MalformedDrawMove(u)

Spec == Init /\ [][Next]_vars
\* the same server with one more operation id to hand out and a clock that advances
SpecWide == Init /\ [][NextWide]_vars
\* the same server with the emits of each handler recorded
SpecEmit == Init /\ [][NextEmit]_vars
\* the server with its browser clients and the messages between them
SpecClient == Init /\ [][NextClient]_vars
\* the server with its browser clients, every message handled at once
SpecLive == Init /\ [][NextLive]_vars
\* DrawingState alone, called for two rooms
SpecRooms == Init /\ [][NextRooms]_vars
\* RoomManager alone, called for three rooms and three users
SpecRegistry == Init /\ [][NextRegistry]_vars
\* the server receiving events without a payload
SpecFault == Init /\ [][NextFault]_vars

\* ---- claims ----

\* the step commits the in-progress operation of user u
Commits(u) ==
    /\ Owns(u)
    /\ Current' = null
    /\ Committed' = Append(Committed, Current)

\* C1: a drawStart of a user who already has an in-progress stroke is rejected
\* and leaves that stroke, its id and its points, as it was.
C1_BeginConflictKeepsStroke ==
    [][\A u \in Users : (DrawStart(u, MaxOps, MaxClock) /\ Owns(u)) => Current' = Current]_vars

\* C2: every user who has begun a stroke and not ended it has that stroke held
\* in progress by the room, with the points the user has submitted so far,
\* whatever the other users begin, extend or end meanwhile.
C2_PerUserInProgress ==
    \A u \in Users :
        stroke[u] # null =>
            /\ Current # null
            /\ Current.id = stroke[u].id
            /\ Current.points = stroke[u].points

\* C3: the operation a user's drawEnd commits carries exactly the points that
\* user submitted since their drawStart, in submission order.
C3_CommittedPointsAreSubmitted ==
    [][\A u \in Users :
          (DrawEnd(u) /\ Commits(u) /\ stroke[u] # null)
              => Last(Committed').points = stroke[u].points]_vars

\* C4: right after a stroke is committed the stack of undone operations is
\* empty, so a redo re-adds nothing.
C4_CommitEmptiesUndone ==
    [][\A u \in Users :
          (DrawEnd(u) /\ Commits(u))
              => /\ Undone' = <<>>
                 /\ redo(states', DefaultRoom).result = null]_vars

\* C5: when two strokes of different users overlapped in time and both users
\* have sent drawEnd, both strokes are in the committed operations.
C5_NoStrokeLost ==
    \A e \in ended, f \in ended :
        f.id \in e.peers => {e.id, f.id} \subseteq Ids(Committed)

\* C6: a drawMove of a user who has no in-progress stroke changes nothing:
\* no operation is created, no in-progress stroke, committed or undone changes.
C6_StrayExtendIsNoOp ==
    [][\A u \in Users : (DrawMove(u, MaxOps, MaxClock) /\ ~Owns(u)) => Room' = Room]_vars

\* C7: a stroke whose author disconnected before drawEnd is never among the
\* committed operations nor in the snapshot getState returns.
C7_OrphanNeverCommitted ==
    /\ Ids(Committed) \cap orphaned = {}
    /\ Ids(getState(states, DefaultRoom).result) \cap orphaned = {}

\* a stroke was orphaned, and a stroke begun after it has been committed
C7_Witness ==
    /\ orphaned # {}
    /\ \E i \in 1..Len(Committed) : \A o \in orphaned : Committed[i].id > o

\* C8: the room holds no in-progress stroke of a user whose disconnect has
\* been processed.
C8_DisconnectDiscardsInProgress ==
    Current # null => conn[Current.userId] # "disconnected"

\* C9: undo on a non-empty committed log removes exactly the last committed
\* operation, whoever wrote it and whoever asks, pushes it on the undone stack
\* and returns it; the other committed entries keep their order.
C9_UndoRemovesLast ==
    [][\A u \in Users :
          (Committed # <<>> /\ Undo(u))
              => /\ Committed' = Front(Committed)
                 /\ Undone' = Append(Undone, Last(Committed))
                 /\ undo(states, DefaultRoom).result = Last(Committed)
                 /\ Current' = Current]_vars

\* an operation is on the undone stack while an operation of another author
\* is still committed
C9_Witness ==
    /\ Undone # <<>>
    /\ Committed # <<>>
    /\ Last(Undone).userId # Last(Committed).userId

\* C10: redo on a non-empty undone stack pops the most recently undone
\* operation, appends it after every committed operation and returns it.
C10_RedoAppendsAtEnd ==
    [][\A u \in Users :
          (Undone # <<>> /\ Redo(u))
              => /\ Committed' = Append(Committed, Last(Undone))
                 /\ Undone' = Front(Undone)
                 /\ redo(states, DefaultRoom).result = Last(Undone)
                 /\ Current' = Current]_vars

\* an operation redone after a newer one was committed: it sits at the end of
\* the log behind an operation with a later id
C10_Witness ==
    /\ Len(Committed) >= 2
    /\ Committed[Len(Committed) - 1].id > Last(Committed).id

\* how often each operation id occurs in a list
IdBag(s) == [i \in Ids(s) |-> Cardinality({k \in 1..Len(s) : s[k].id = i})]

C12_ClearEmptiesAll ==
    [][\A u \in Users :
          Clear(u)
              => /\ Committed' = <<>>
                 /\ Undone' = <<>>
                 /\ Current' = null
                 /\ undo(states', DefaultRoom).result = null
                 /\ redo(states', DefaultRoom).result = null
                 /\ undo(states', DefaultRoom).states = states'
                 /\ redo(states', DefaultRoom).states = states']_vars

\* operations were created, and a clear left none of them anywhere
C12_Witness ==
    /\ nextId > 1
    /\ Committed = <<>>
    /\ Undone = <<>>
    /\ Current = null

\* C13: an undo on an empty committed log, and a redo on an empty undone stack,
\* return null, leave the room state as it was and emit no event to any socket.
C13_EmptyUndoRedoSilent ==
    [][\A u \in Users :
          /\ (Undo(u) /\ out'.event = "undo" /\ Committed = <<>>)
                => /\ undo(states, DefaultRoom).result = null
                   /\ Room' = Room
                   /\ out'.emits = <<>>
          /\ (Redo(u) /\ out'.event = "redo" /\ Undone = <<>>)
                => /\ redo(states, DefaultRoom).result = null
                   /\ Room' = Room
                   /\ out'.emits = <<>>]_vars

\* an undo was handled while the committed log was empty and a stroke was in
\* progress, and it emitted nothing
C13_Witness ==
    /\ out.event = "undo"
    /\ out.emits = <<>>
    /\ Current # null

\* every operation the room holds: committed, undone and in progress
AllOps == Committed \o Undone \o (IF Current = null THEN <<>> ELSE <<Current>>)

\* C14: no operation id occurs twice across the committed log, the undone stack
\* and the in-progress slot.
C14_IdsOccurOnce ==
    \A i \in 1..Len(AllOps), j \in 1..Len(AllOps) :
        AllOps[i].id = AllOps[j].id => i = j

\* an operation is undone while another one is in progress
C14_Witness ==
    /\ Undone # <<>>
    /\ Current # null

\* C15: the timestamps of the committed operations are non-decreasing in log
\* order, after any mix of commits, undos and redos.
C15_TimestampsNonDecreasing ==
    \A i \in 1..(Len(Committed) - 1) :
        Committed[i].timestamp <= Committed[i + 1].timestamp

\* ids of the operations that are not committed: undone or in progress
UncommittedIds == Ids(Undone) \cup (IF Current = null THEN {} ELSE {Current.id})

\* C16: getState returns exactly the committed operations in log order and no
\* operation that is in progress or on the undone stack; the init message sent
\* to a joining client carries that snapshot, so never an uncommitted stroke.
C16_SnapshotIsCommitted ==
    [][/\ getState(states', DefaultRoom).result = Committed'
       /\ Ids(getState(states', DefaultRoom).result) \cap UncommittedIds' = {}
       /\ \A u \in Users :
             Connect(u)
                 => LET init == ConnectEmits(u)[1]
                    IN  /\ init.event = "init"
                        /\ init.to = {u}
                        /\ init.payload.canvasState = Committed
                        /\ Ids(init.payload.canvasState) \cap UncommittedIds = {}]_vars

\* a client joined while a stroke was in progress
C16_Witness ==
    /\ out.event = "connection"
    /\ Current # null

\* the operations that have been committed: in the log or undone
Settled == Committed \o Undone

\* C17: an operation that is committed or undone keeps its id, author, style
\* and points through every later drawStart, drawMove, drawEnd, undo and redo of
\* any user: as long as the room holds it, it is the same record.
C17_CommittedIsImmutable ==
    [][LET before == Settled
           after == Settled'
       IN  \/ after = before
           \/ \A i \in 1..Len(before), j \in 1..Len(after) :
                 before[i].id = after[j].id => before[i] = after[j]]_vars

\* the author of a committed operation has begun and extended a later stroke
C17_Witness ==
    /\ Committed # <<>>
    /\ Current # null
    /\ Current.userId = Committed[1].userId
    /\ Len(Current.points) >= 2

\* C18: a drawEnd of a user who owns no in-progress stroke (there is none, or
\* it belongs to another user) returns null, leaves committed, undone and the
\* other user's in-progress stroke as they were and emits no drawEnd; a second
\* endDraw right after any drawEnd commits nothing more.
C18_StrayEndIsNoOp ==
    [][\A u \in Users :
          (DrawEnd(u) /\ out'.event = "drawEnd" /\ out'.user = u)
              => /\ ~Owns(u)
                       => /\ endDraw(states, DefaultRoom, u).result = null
                          /\ Room' = Room
                          /\ out'.emits = <<>>
                 /\ Len(Committed') <= Len(Committed) + 1
                 /\ endDraw(states', DefaultRoom, u).result = null
                 /\ endDraw(states', DefaultRoom, u).states = states']_vars

\* a drawEnd was handled for a user while the in-progress stroke belonged to
\* another user: nothing was emitted and the stroke is still in progress
C18_Witness ==
    /\ out.event = "drawEnd"
    /\ out.emits = <<>>
    /\ Current # null
    /\ Current.userId # out.user

Recipients == UNION {out.emits[i].to : i \in 1..Len(out.emits)}

DrawingEvents == {"drawStart", "drawMove", "drawEnd", "cursorMove"}

\* C20 as stated: what a drawStart, drawMove, drawEnd or cursorMove handler
\* broadcasts goes to every other member of the room and never to the socket
\* that sent the event.
C20_SenderNeverReceives ==
    (out.event \in DrawingEvents /\ out.emits # <<>>)
        => Recipients = InRoom \ {out.user}

\* C20 amended: drawMove and cursorMove broadcasts go to every other member of
\* the room and never to the sending socket; drawStart broadcasts, and the
\* drawEnd broadcast of a drawEnd that committed, go to every member of the
\* room, the sending socket included.
C20_OnlyMovesExcludeSender ==
    /\ out.event \in DrawingEvents
          => \A i \in 1..Len(out.emits) : out.emits[i].event = out.event
    /\ out.event \in {"drawMove", "cursorMove"}
          => /\ out.emits # <<>>
             /\ Recipients = InRoom \ {out.user}
    /\ out.event = "drawStart"
          => /\ out.emits # <<>>
             /\ Recipients = InRoom
    /\ (out.event = "drawEnd" /\ out.emits # <<>>)
          => Recipients = InRoom

\* a drawMove was relayed while both sockets were in the room
C20_Witness ==
    /\ out.event = "drawMove"
    /\ InRoom = Users
    /\ Recipients = Users \ {out.user}

\* C21: every undo that removed an operation, every redo that restored one and
\* every clear is broadcast to all current members of the room, the socket
\* that asked for it included.
C21_UndoRedoClearReachAll ==
    [][\A u \in Users :
          /\ (Undo(u) /\ out'.event = "undo" /\ out'.user = u /\ Committed # <<>>)
                => /\ out'.emits # <<>>
                   /\ \A i \in 1..Len(out'.emits) :
                         out'.emits[i].event = "undo" /\ out'.emits[i].to = InRoom'
                   /\ u \in Recipients'
          /\ (Redo(u) /\ out'.event = "redo" /\ out'.user = u /\ Undone # <<>>)
                => /\ out'.emits # <<>>
                   /\ \A i \in 1..Len(out'.emits) :
                         out'.emits[i].event = "redo" /\ out'.emits[i].to = InRoom'
                   /\ u \in Recipients'
          /\ (Clear(u) /\ out'.event = "clear" /\ out'.user = u)
                => /\ out'.emits # <<>>
                   /\ \A i \in 1..Len(out'.emits) :
                         out'.emits[i].event = "clear" /\ out'.emits[i].to = InRoom'
                   /\ u \in Recipients']_vars

\* a redo restored an operation while both sockets were in the room
C21_Witness ==
    /\ out.event = "redo"
    /\ out.emits # <<>>
    /\ InRoom = Users
    /\ Recipients = Users

C23_LogEndsWithLastMember ==
    [][\A u \in Users :
          (Connect(u) /\ InRoom = {} /\ \E v \in Users : conn[v] = "disconnected")
              => /\ ConnectEmits(u)[1].payload.canvasState = <<>>
                 /\ undo(states', DefaultRoom).result = null
                 /\ redo(states', DefaultRoom).result = null]_vars

\* what DrawingState holds for room r, if anything
Held(st, r) == IF r \in DOMAIN st THEN st[r] ELSE null

\* the step is a call of a DrawingState method for room r
CallFor(r) ==
    \/ \E u \in Users : CallStartDraw(r, u) \/ CallAddPoint(r, u) \/ CallEndDraw(r, u)
    \/ CallUndo(r)
    \/ CallRedo(r)
    \/ CallClear(r)

\* C24: startDraw, addPoint, endDraw, undo, redo and clear applied to one room
\* leave the committed log, the undone stack and the in-progress stroke of
\* every other room as they were: a room whose state changes in a step is not
\* "another room" of any call the step makes.
C24_OtherRoomsUntouched ==
    [][\A other \in RoomIds :
          \/ Held(states', other) = Held(states, other)
          \/ \A r \in RoomIds \ {other} : ~CallFor(r)]_vars

\* one room holds a committed operation while an operation of the other room
\* has been undone
C24_Witness ==
    /\ Held(states, "r1") # null
    /\ Held(states, "r2") # null
    /\ Held(states, "r1").operations # <<>>
    /\ Held(states, "r2").undoStack # <<>>

\* C25: a drawStart or drawMove whose payload is missing never brings the
\* server down and leaves the committed log, the undone stack, the membership
\* and the other users' in-progress strokes as they were.
C25_MalformedIsHarmless ==
    [][\A u \in Users :
          (MalformedDrawStart(u) \/ MalformedDrawMove(u))
              => /\ ~crashed'
                 /\ Committed' = Committed
                 /\ Undone' = Undone
                 /\ rooms' = rooms
                 /\ (Current # null /\ Current.userId # u) => Current' = Current]_vars

\* s is what is left of t after dropping some of its first elements
IsSuffix(s, t) ==
    /\ Len(s) <= Len(t)
    /\ s = SubSeq(t, Len(t) - Len(s) + 1, Len(t))

\* C26: a client that joined while a stroke was in progress has that stroke
\* once its author's drawEnd has been processed and everything sent to the
\* joiner has been delivered: its operations hold the stroke's id, with the
\* points sent after the join.
C26_MidStrokeJoinerGetsStroke ==
    \A v \in Users :
        (/\ conn[v] = "connected"
         /\ joined[v].during # 0
         /\ joined[v].during \in Ids(Committed)
         /\ net[v] = <<>>)
            => /\ joined[v].during \in DOMAIN client[v].operations
               /\ \E i \in 1..Len(Committed) :
                     /\ Committed[i].id = joined[v].during
                     /\ IsSuffix(client[v].operations[joined[v].during].points,
                                 Committed[i].points)

\* C27: when a client that joined a quiescent room handles its init message
\* (no stroke in progress, nothing else in flight to it), the ids in its
\* operations map are the ids of the server's committed log, operations with
\* fewer than two points included.
C27_InitLoadsWholeLog ==
    [][\A v \in Users :
          (/\ Receive(v)
           /\ Head(net[v]).event = "init"
           /\ Len(net[v]) = 1
           /\ joined[v].during = 0
           /\ Current = null)
              => DOMAIN client'[v].operations = Ids(Committed)]_vars

\* C28: the userId an undo or redo broadcast carries is the id of the user who
\* asked for the undo or redo.
C28_UndoRedoNamesRequester ==
    (out.event \in {"undo", "redo"} /\ out.emits # <<>>)
        => \A i \in 1..Len(out.emits) : out.emits[i].payload.userId = out.user

\* nothing is in flight and nobody is drawing
Quiescent ==
    /\ Current = null
    /\ \A u \in Users : net[u] = <<>> /\ ~client[u].isDrawing

\* C29: in every quiescent state (every message delivered, no stroke in
\* progress) each connected client that was present from before the first
\* operation holds exactly the ids of the server's committed log.
C29_ClientsMatchServer ==
    Quiescent
        => \A v \in Users :
               (conn[v] = "connected" /\ joined[v].at = 1)
                   => DOMAIN client[v].operations = Ids(Committed)

\* C30: every drawMove and drawEnd broadcast for a user carries the
\* operationId that user's latest drawStart broadcast announced, and every
\* operation that reaches the committed log has an id a drawStart broadcast
\* announced.
C30_IdStableForStroke ==
    [][\A u \in Users :
          /\ (DrawMove(u, MaxOpsWide, MaxClockWide) /\ stroke[u] # null)
                => \A i \in 1..Len(DrawMoveEmits(u)) :
                       DrawMoveEmits(u)[i].payload.operationId = stroke[u].id
          /\ (DrawEnd(u) /\ stroke[u] # null)
                => \A i \in 1..Len(DrawEndEmits(u)) :
                       DrawEndEmits(u)[i].payload.operationId = stroke[u].id
          /\ (DrawEnd(u) /\ Commits(u))
                => /\ stroke[u] # null
                   /\ Current.id = stroke[u].id]_vars

\* C31: once everything sent to a connected client has been delivered and the
\* client is not drawing, every operation of the committed log that the client
\* drew since it joined is in the client's operations map under the server's
\* id, with the points of that stroke.
C31_OwnStrokesStored ==
    \A u \in Users :
        (/\ conn[u] = "connected"
         /\ net[u] = <<>>
         /\ ~client[u].isDrawing)
            => \A i \in 1..Len(Committed) :
                   (Committed[i].userId = u /\ Committed[i].id >= joined[u].at)
                       => /\ Committed[i].id \in DOMAIN client[u].operations
                          /\ client[u].operations[Committed[i].id].points
                                 = Committed[i].points

\* the ids of the operations of ops, in the order of ops
IdSeq(ops) == [i \in 1..Len(ops) |-> ops[i].id]

\* the client created its operations at different times
DistinctTimes(c) ==
    \A i, j \in DOMAIN c.operations :
        i # j => c.operations[i].timestamp # c.operations[j].timestamp

\* C32: when nothing is in flight and nobody is drawing, every connected client
\* redraws the operations it shares with the server's committed log in the
\* order the committed log has them (stated for the clients whose operations
\* have different timestamps, where the sort alone decides the order).
C32_RedrawOrderIsLogOrder ==
    Quiescent
        => \A v \in Users :
               (conn[v] = "connected" /\ DistinctTimes(client[v]))
                   => LET drawn == IdSeq(redrawAll(client[v]))
                          logged == IdSeq(Committed)
                      IN  SelectSeq(drawn, LAMBDA i : i \in Ids(Committed))
                              = SelectSeq(logged, LAMBDA i : i \in Ids(redrawAll(client[v])))

\* the tool, color and strokeWidth an operation carries
StyleOf(op) == [tool |-> op.tool, color |-> op.color, strokeWidth |-> op.strokeWidth]

\* C33: every operation of the committed log carries a tool, color and
\* strokeWidth that a drawStart submitted, and its first point is the point of
\* its author's drawStart.
C33_CommittedCarriesSubmitted ==
    \A i \in 1..Len(Committed) :
        /\ StyleOf(Committed[i]) \in Styles
        /\ Committed[i].points[1] = PointOf(Committed[i].userId, 1)

\* k calls of undo, then of redo, on room r with nothing in between
RECURSIVE Undos(_, _, _)
Undos(st, r, k) == IF k = 0 THEN st ELSE Undos(undo(st, r).states, r, k - 1)

RECURSIVE Redos(_, _, _)
Redos(st, r, k) == IF k = 0 THEN st ELSE Redos(redo(st, r).states, r, k - 1)

\* C34: on any room, k undos followed by k redos, for every k up to the length
\* of the committed log, give back the committed log as the same sequence and
\* the undone stack with its contents from before.
C34_UndosRedosRestore ==
    \A r \in RoomIds :
        LET before == getRoomState(states, r)[r]
        IN  \A k \in 1..Len(before.operations) :
                LET after == getRoomState(Redos(Undos(states, r, k), r, k), r)[r]
                IN  /\ after.operations = before.operations
                    /\ after.undoStack = before.undoStack

\* both operations of a room have been undone, and two redos bring them back
\* in the order they were committed in
C34_Witness ==
    \E r \in RoomIds :
        LET room == getRoomState(states, r)[r]
        IN  /\ room.operations = <<>>
            /\ Len(room.undoStack) = 2
            /\ getRoomState(Redos(states, r, 2), r)[r].operations
                   = <<room.undoStack[2], room.undoStack[1]>>

\* the ids room r holds in its committed log and on its undone stack
HistoryIds(st, r) ==
    IF r \in DOMAIN st THEN Ids(st[r].operations) \cup Ids(st[r].undoStack) ELSE {}

Connected == {u \in Users : conn[u] = "connected"}

\* C36: the members the registry holds for the room are exactly the users whose
\* connection was accepted and who have not disconnected, and the users list of
\* an init message names exactly those users, the joiner among them.
C36_MembersAreConnected ==
    /\ {user.id : user \in getRoomUsers(rooms, DefaultRoom)} = Connected
    /\ out.event = "connection"
          => LET init == out.emits[1]
             IN  /\ init.event = "init"
                 /\ init.to = {out.user}
                 /\ out.user \in {user.id : user \in init.payload.users}
                 /\ {user.id : user \in init.payload.users} = Connected

\* a user joined after another one had left: the init message lists the joiner
\* alone
C36_Witness ==
    /\ out.event = "connection"
    /\ \E u \in Users : conn[u] = "disconnected"
    /\ {user.id : user \in out.emits[1].payload.users} = {out.user}

\* C37: after any sequence of joinRoom and leaveRoom calls every room the
\* registry holds has at least one member, and a leaveRoom for a room the
\* registry does not hold, or for a user who is not a member of the room,
\* leaves the registry as it was.
C37_NoEmptyRoomKept ==
    [][/\ \A r \in DOMAIN rooms' : DOMAIN rooms'[r] # {}
       /\ \A r \in RegistryRooms, u \in RegistryUsers :
             (/\ r \notin DOMAIN rooms \/ u \notin DOMAIN rooms[r]
              /\ CallLeaveRoom(r, u))
                 => rooms' = rooms]_vars

\* the last call was a leaveRoom after which the registry does not hold the
\* room, while the user is still a member of another room that has two members
C37_Witness ==
    /\ out.event = "leaveRoom"
    /\ out.room \notin DOMAIN rooms
    /\ \E r \in DOMAIN rooms :
          /\ out.user \in DOMAIN rooms[r]
          /\ Cardinality(DOMAIN rooms[r]) = 2

====
